---- MODULE Spec2Model ----
(***************************************************************************)
(* State-machine model of the chat connection layer (class ChatSystem,     *)
(* src/ethiopian-payments.js), of the reconnect entry point of             *)
(* UnifiedCommunicationSystem (src/Payment Failed Page/service-worker.js)  *)
(* and of the signaling message handler of class MediaRoom                 *)
(* (src/unnamed/part_001).                                                 *)
(*                                                                         *)
(* Every browser event handler and every public operation is one action:   *)
(* JavaScript runs each of them to completion on one thread.               *)
(***************************************************************************)
EXTENDS Integers, Sequences, FiniteSets, TLC

\* ------------------------------------------------------------- bounds
MaxSockets == 4      \* connect() calls (WebSocket objects ever created)
MaxOps == 3          \* user operations, 'online' events and inbound chat frames
MaxMediaFrames == 3  \* inbound frames on the signaling socket
MaxPcs == 3          \* RTCPeerConnection objects ever created
MaxShares == 2       \* startScreenShare calls
MaxLeaves == 1       \* MediaRoom.leaveRoom calls
MessageLimit == 3    \* config.messageLimit, scaled down from 1000
MaxAdds == 6         \* addMessageToRoom calls on the histories alone
MaxReloads == 1      \* page reloads

\* ------------------------------------------------------------- values
NoSocket == 0                 \* this.ws = null
NoRoom == "none"              \* this.currentRoom = null
Rooms == {"r1", "r2"}
Me == "me"                    \* this.userId
Other == "u2"                 \* another user of the chat
RemoteIds == {101}            \* message ids assigned by other clients
OwnIds == 1..MaxOps           \* message ids generateMessageId can return
Participants == {"p1", "p2"}  \* remote participants of the media room

\* The two configurations the scenarios of the specification use:
\* the defaults of the constructor, and reconnectAttempts = 2.
Configs ==
    { [reconnectAttempts |-> 5, reconnectDelay |-> 3000, messageLimit |-> MessageLimit],
      [reconnectAttempts |-> 2, reconnectDelay |-> 3000, messageLimit |-> MessageLimit] }

VARIABLES
    \* ---- ChatSystem fields
    config,          \* this.config
    ws,              \* this.ws: index into sockets, NoSocket for null
    connected,       \* this.connected
    reconnectCount,  \* this.reconnectCount
    messageQueue,    \* this.messageQueue: message ids, oldest first
    currentRoom,     \* this.currentRoom
    messages,        \* this.messages: room -> history
    unreadCounts,    \* this.unreadCounts
    typingUsers,     \* this.typingUsers (keys)
    nextId,          \* the next message id generateMessageId returns
    uploads,         \* ids of the file messages whose upload request is pending
    rooms,           \* this.rooms: the rooms known, in insertion order
    storage,         \* localStorage: what saveData wrote last
    nReloads,        \* page reloads so far
    created,         \* ids of the messages sendMessage or a successful upload made
    \* ---- the browser around it
    sockets,         \* every WebSocket created by connect(), in creation order
    timers,          \* pending setTimeout callbacks of handleDisconnection
    wire,            \* frames the sockets transmitted, in order
    listening,       \* the window 'online' listeners are registered
    notice,          \* last connection notification shown to the user
    errorNotices,    \* Notifications.error calls made for inbound error frames
    uncaught,        \* handlers an exception escaped from
    \* ---- history of the run (no effect on the program)
    nOnline,         \* 'online' events so far
    nInbound,        \* inbound chat frames so far
    nJoins,          \* joinRoom calls so far
    closesSinceOpen, \* socket closures since the last socket open
    delays,          \* backoff delays scheduled since the last socket open
    acked,           \* sockets on which the server acknowledged the auth frame
    rejected,        \* sockets on which the server rejected the auth frame
    lastFrame,       \* the last inbound frame handed to a router
    invoked,         \* the handlers the router invoked for lastFrame
    \* ---- MediaRoom fields
    signaling,       \* this.signaling: "null", "connecting", "open", "closed"
    handlersSet,     \* setupEventHandlers has run
    peerConnections, \* this.peerConnections: participant -> index into pcs, 0 if none
    pcs,             \* every RTCPeerConnection created, in creation order
    participants,    \* this.participants (keys)
    negotiating,     \* handleOffer calls suspended at an await
    mediaWire,       \* frames sent on the signaling socket
    nMediaFrames,    \* inbound signaling frames so far
    localStream,     \* this.localStream: "null", or the state of its tracks
    screenStream,    \* this.screenStream: "null", or the state of its tracks
    isScreenSharing, \* this.isScreenSharing
    screenPending,   \* a getDisplayMedia request is waiting for the user
    nShares,         \* startScreenShare calls so far
    nLeaves,         \* leaveRoom calls so far
    \* ---- a second client in the same room
    peer             \* the MediaRoom of the other client

connVars == <<config, ws, connected, reconnectCount, sockets, timers, listening, notice>>
roomVars == <<currentRoom, messages, unreadCounts, typingUsers>>
outVars == <<messageQueue, wire, nextId>>
histVars == <<nOnline, nInbound, nJoins, closesSinceOpen, delays, acked, rejected>>
routeVars == <<lastFrame, invoked, errorNotices, uncaught>>
moreVars == <<uploads, rooms, storage, nReloads, created>>
pairVars == <<peer>>
chatVars == <<connVars, roomVars, outVars, histVars, moreVars, pairVars>>
mediaVars == <<signaling, handlersSet, peerConnections, pcs, participants,
               negotiating, mediaWire, nMediaFrames, localStream, screenStream,
               isScreenSharing, screenPending, nShares, nLeaves, pairVars>>
vars == <<chatVars, routeVars, mediaVars>>

\* ------------------------------------------------------------- helpers
NoFrame == [sys |-> "none", type |-> "none", from |-> "none", room |-> "none"]

Frame(t, id, room) == [type |-> t, id |-> id, room |-> room]

OnSocket(f, s) == [sock |-> s, type |-> f.type, id |-> f.id, room |-> f.room]

Range(s) == {s[k] : k \in 1..Len(s)}

\* ------------------------------------------------------------- sending
\* WebSocket.send of the browser: transmits on an open socket, throws
\* InvalidStateError on a socket that is still connecting, and discards the
\* data without an error on a closed one.  Result: the wire and whether the
\* call threw.
wsSend(socks, w, wr, f) ==
    IF socks[w].state = "open"
    THEN [wire |-> Append(wr, OnSocket(f, w)), threw |-> FALSE]
    ELSE [wire |-> wr, threw |-> socks[w].state = "connecting"]

\* ChatSystem.send: hands the frame to the socket when connected, and
\* otherwise drops it.
send(conn, socks, w, wr, f) ==
    IF conn /\ w # NoSocket
    THEN wsSend(socks, w, wr, f)
    ELSE [wire |-> wr, threw |-> FALSE]

\* The while loop of processMessageQueue: shift a message, send it, repeat;
\* a throwing send ends the loop with the shifted message already removed.
RECURSIVE drainQueue(_, _, _, _, _)
drainQueue(conn, socks, w, q, wr) ==
    IF q = <<>>
    THEN [queue |-> q, wire |-> wr, threw |-> FALSE]
    ELSE LET r == send(conn, socks, w, wr, Frame("message", Head(q), NoRoom))
         IN  IF r.threw
             THEN [queue |-> Tail(q), wire |-> r.wire, threw |-> TRUE]
             ELSE drainQueue(conn, socks, w, Tail(q), r.wire)

processMessageQueue(conn, socks, w, q, wr) ==
    IF ~conn \/ q = <<>>
    THEN [queue |-> q, wire |-> wr, threw |-> FALSE]
    ELSE drainQueue(conn, socks, w, q, wr)

\* ------------------------------------------------------------- connection
\* connect(): a new WebSocket, which becomes this.ws; the promise it returns
\* is pending.  "opened" records that the socket has been open.
connect(socks, origin) ==
    Append(socks, [state |-> "connecting", origin |-> origin, promise |-> "pending",
                   opened |-> FALSE])

\* handleDisconnection: the retry branch schedules one timer with the linear
\* delay, the other branch only tells the user.
handleDisconnectionNoLimit(cfg, count, tms) ==
    [count |-> count + 1,
     timers |-> Append(tms, [attempt |-> count + 1,
                             delay |-> cfg.reconnectDelay * (count + 1)]),
     notice |-> "reconnecting"]

handleDisconnectionOffByOne(cfg, count, tms) ==
    IF count <= cfg.reconnectAttempts
    THEN [count |-> count + 1,
          timers |-> Append(tms, [attempt |-> count + 1,
                                  delay |-> cfg.reconnectDelay * (count + 1)]),
          notice |-> "reconnecting"]
    ELSE [count |-> count, timers |-> tms, notice |-> "failed"]

handleDisconnectionFatal(cfg, count, tms) ==
    [count |-> count, timers |-> tms, notice |-> "failed"]

handleDisconnectionExponential(cfg, count, tms) ==
    IF count < cfg.reconnectAttempts
    THEN [count |-> count + 1,
          timers |-> Append(tms, [attempt |-> count + 1,
                                  delay |-> cfg.reconnectDelay * (2 ^ count)]),
          notice |-> "reconnecting"]
    ELSE [count |-> count, timers |-> tms, notice |-> "failed"]

handleDisconnection(cfg, count, tms) ==
    IF count < cfg.reconnectAttempts
    THEN [count |-> count + 1,
          timers |-> Append(tms, [attempt |-> count + 1,
                                  delay |-> cfg.reconnectDelay * (count + 1)]),
          notice |-> "reconnecting"]
    ELSE [count |-> count, timers |-> tms, notice |-> "failed"]

\* The value ws.onopen gives this.reconnectCount.
onopenCountKept(count) == count

onopenCount(count) == 0

onopenPromiseAwaitsAck(promise, threw) == promise

\* The state of the promise of connect() when ws.onopen returns: resolve()
\* is its last statement, not reached when a send before it threw.
onopenPromise(promise, threw) ==
    IF threw \/ promise # "pending" THEN promise ELSE "resolved"

\* The operations and events the environment has produced so far.
Ops == nOnline + nInbound + nJoins + (nextId - 1)

RemoveAt(s, k) == [j \in 1..(Len(s) - 1) |-> IF j < k THEN s[j] ELSE s[j + 1]]

\* A pending timer can be the next to fire unless one scheduled before it
\* has a delay that is not longer.
CanFire(k) ==
    /\ k \in 1..Len(timers)
    /\ \A j \in 1..(k - 1) : timers[j].delay > timers[k].delay

\* localStorage before anything was saved.
NoStorage == [rooms |-> <<>>, messages |-> [r \in Rooms |-> <<>>]]

HasRoom(rms, r) == \E k \in 1..Len(rms) : rms[k].id = r

\* saveData: chat_rooms gets every room, chat_messages_<room> is written
\* for the rooms this.messages has an entry for (an entry is never empty).
saveData(st, rms, msgs) ==
    [rooms |-> rms,
     messages |-> [r \in Rooms |-> IF msgs[r] # <<>> THEN msgs[r] ELSE st.messages[r]]]

\* loadSavedData: the saved rooms, and the saved history of each of them.
loadSavedData(st) ==
    [rooms |-> st.rooms,
     messages |-> [r \in Rooms |-> IF HasRoom(st.rooms, r) THEN st.messages[r] ELSE <<>>]]

Init ==
    /\ config \in Configs
    /\ ws = NoSocket
    /\ connected = FALSE
    /\ reconnectCount = 0
    /\ messageQueue = <<>>
    /\ currentRoom = NoRoom
    /\ messages = [r \in Rooms |-> <<>>]
    /\ unreadCounts = [r \in Rooms |-> 0]
    /\ typingUsers = {}
    /\ nextId = 1
    /\ uploads = {}
    /\ rooms = <<>>
    /\ storage = NoStorage
    /\ nReloads = 0
    /\ created = {}
    /\ sockets = <<>>
    /\ timers = <<>>
    /\ wire = <<>>
    /\ listening = FALSE
    /\ notice = "none"
    /\ errorNotices = 0
    /\ uncaught = {}
    /\ nOnline = 0
    /\ nInbound = 0
    /\ nJoins = 0
    /\ closesSinceOpen = 0
    /\ delays = <<>>
    /\ acked = {}
    /\ rejected = {}
    /\ lastFrame = NoFrame
    /\ invoked = <<>>
    /\ signaling = "null"
    /\ handlersSet = FALSE
    /\ peerConnections = [p \in Participants |-> 0]
    /\ pcs = <<>>
    /\ participants = {}
    /\ negotiating = {}
    /\ mediaWire = <<>>
    /\ nMediaFrames = 0
    /\ localStream = "null"
    /\ screenStream = "null"
    /\ isScreenSharing = FALSE
    /\ screenPending = FALSE
    /\ nShares = 0
    /\ nLeaves = 0
    /\ peer = [signaling |-> "null", handlersSet |-> FALSE, pcs |-> <<>>,
               peerConnections |-> [p \in Participants |-> 0], participants |-> {},
               wire |-> <<>>]

\* ChatSystem.initialize up to its first await that suspends: loadSavedData,
\* then connect().
initialize ==
    /\ sockets = <<>>
    /\ sockets' = connect(sockets, "init")
    /\ ws' = 1
    /\ rooms' = loadSavedData(storage).rooms
    /\ messages' = loadSavedData(storage).messages
    /\ UNCHANGED <<config, connected, reconnectCount, timers, listening, notice>>
    /\ UNCHANGED <<currentRoom, unreadCounts, typingUsers, outVars, histVars>>
    /\ UNCHANGED <<routeVars, mediaVars, uploads, storage, nReloads, created>>

\* ws.onopen of socket i.  When it was the socket of initialize, the
\* resolved promise lets initialize go on to setupEventListeners.
SocketOpen(i) ==
    /\ i \in 1..Len(sockets)
    /\ sockets[i].state = "connecting"
    /\ LET socks == [sockets EXCEPT ![i].state = "open", ![i].opened = TRUE]
           auth == send(TRUE, socks, ws, wire, Frame("auth", 0, NoRoom))
           pq == IF auth.threw
                 THEN [queue |-> messageQueue, wire |-> wire, threw |-> TRUE]
                 ELSE processMessageQueue(TRUE, socks, ws, messageQueue, auth.wire)
           promise == onopenPromise(socks[i].promise, pq.threw)
       IN  /\ connected' = TRUE
           /\ reconnectCount' = onopenCount(reconnectCount)
           /\ wire' = pq.wire
           /\ messageQueue' = pq.queue
           /\ sockets' = [socks EXCEPT ![i].promise = promise]
           /\ notice' = IF pq.threw THEN notice ELSE "connected"
           /\ listening' = (listening \/ (socks[i].origin = "init" /\ promise = "resolved"))
           /\ uncaught' = IF pq.threw THEN uncaught \cup {"onopen"} ELSE uncaught
    /\ closesSinceOpen' = 0
    /\ delays' = <<>>
    /\ UNCHANGED <<config, ws, timers, nextId, roomVars>>
    /\ UNCHANGED <<nOnline, nInbound, nJoins, acked, rejected>>
    /\ UNCHANGED <<lastFrame, invoked, errorNotices, mediaVars, moreVars>>

\* The connection of socket i ends: ws.onerror when the browser reports an
\* error (always, for a socket that never opened), then ws.onclose.
SocketClose(i, err) ==
    /\ i \in 1..Len(sockets)
    /\ sockets[i].state \in {"connecting", "open"}
    /\ sockets[i].state = "connecting" => err
    /\ LET hd == handleDisconnection(config, reconnectCount, timers)
           rejects == err /\ sockets[i].promise = "pending"
       IN  /\ sockets' = [sockets EXCEPT ![i].state = "closed",
                                         ![i].promise = IF rejects THEN "rejected" ELSE @]
           /\ connected' = FALSE
           /\ reconnectCount' = hd.count
           /\ timers' = hd.timers
           /\ notice' = hd.notice
           /\ delays' = IF Len(hd.timers) > Len(timers)
                        THEN Append(delays, hd.timers[Len(hd.timers)].delay)
                        ELSE delays
           /\ uncaught' = IF rejects /\ sockets[i].origin = "online"
                          THEN uncaught \cup {"reconnectAll"}
                          ELSE uncaught
    /\ closesSinceOpen' = closesSinceOpen + 1
    /\ UNCHANGED <<config, ws, listening, roomVars, outVars>>
    /\ UNCHANGED <<nOnline, nInbound, nJoins, acked, rejected>>
    /\ UNCHANGED <<lastFrame, invoked, errorNotices, mediaVars, moreVars>>

\* The setTimeout callback of handleDisconnection: connect() again.
TimerFire(k) ==
    /\ CanFire(k)
    /\ Len(sockets) < MaxSockets
    /\ timers' = RemoveAt(timers, k)
    /\ sockets' = connect(sockets, "timer")
    /\ ws' = Len(sockets) + 1
    /\ UNCHANGED <<config, connected, reconnectCount, listening, notice>>
    /\ UNCHANGED <<roomVars, outVars, histVars, routeVars, mediaVars, moreVars>>

\* The browser's 'online' event: the listener of ChatSystem
\* (processMessageQueue), then the listener of UnifiedCommunicationSystem
\* (reconnectAll: connect() unless connected).
reconnectAll(conn) == ~conn

online ==
    /\ listening
    /\ Ops < MaxOps
    /\ Len(sockets) < MaxSockets
    /\ LET pq == processMessageQueue(connected, sockets, ws, messageQueue, wire)
       IN  /\ messageQueue' = pq.queue
           /\ wire' = pq.wire
           /\ uncaught' = IF pq.threw THEN uncaught \cup {"online"} ELSE uncaught
    /\ IF reconnectAll(connected)
       THEN /\ sockets' = connect(sockets, "online")
            /\ ws' = Len(sockets) + 1
       ELSE UNCHANGED <<sockets, ws>>
    /\ nOnline' = nOnline + 1
    /\ UNCHANGED <<config, connected, reconnectCount, timers, listening, notice>>
    /\ UNCHANGED <<roomVars, nextId>>
    /\ UNCHANGED <<nInbound, nJoins, closesSinceOpen, delays, acked, rejected>>
    /\ UNCHANGED <<lastFrame, invoked, errorNotices, mediaVars, moreVars>>

\* ------------------------------------------------------------- rooms
RoomOrder == <<"r1", "r2">>

addMessageToRoomKeepsOldest(cfg, msgs, room, m) ==
    LET h == Append(msgs[room], m)
    IN  [msgs EXCEPT ![room] =
            IF Len(h) > cfg.messageLimit THEN SubSeq(h, 1, cfg.messageLimit) ELSE h]

\* addMessageToRoom: push, then splice the oldest off above messageLimit.
addMessageToRoom(cfg, msgs, room, m) ==
    LET h == Append(msgs[room], m)
        n == Len(h)
    IN  [msgs EXCEPT ![room] =
            IF n > cfg.messageLimit
            THEN SubSeq(h, n - cfg.messageLimit + 1, n)
            ELSE h]

HasId(h, id) == \E k \in 1..Len(h) : h[k].id = id

FirstIndex(h, id) == CHOOSE k \in 1..Len(h) : h[k].id = id /\ \A j \in 1..(k - 1) : h[j].id # id

\* findMessage: the first message with the id, rooms taken in order.
findMessage(msgs, id) ==
    IF \E n \in 1..Len(RoomOrder) : HasId(msgs[RoomOrder[n]], id)
    THEN LET n == CHOOSE n \in 1..Len(RoomOrder) :
                      /\ HasId(msgs[RoomOrder[n]], id)
                      /\ \A j \in 1..(n - 1) : ~HasId(msgs[RoomOrder[j]], id)
         IN  [found |-> TRUE, room |-> RoomOrder[n],
              index |-> FirstIndex(msgs[RoomOrder[n]], id)]
    ELSE [found |-> FALSE, room |-> NoRoom, index |-> 0]

\* updateMessageStatus: the status of the message found, if any.
updateMessageStatus(msgs, id, status) ==
    LET f == findMessage(msgs, id)
    IN  IF f.found
        THEN [msgs EXCEPT ![f.room][f.index].status = status]
        ELSE msgs

\* addMessageToRoom(room, message) called with the next message to arrive.
appendMessage(room) ==
    /\ nextId <= MaxAdds
    /\ messages' = addMessageToRoom(config, messages, room,
                        [id |-> nextId, roomId |-> room, userId |-> Other,
                         status |-> "sending"])
    /\ nextId' = nextId + 1
    /\ storage' = saveData(storage, rooms, messages')
    /\ UNCHANGED <<connVars, currentRoom, unreadCounts, typingUsers, messageQueue,
                   wire, histVars, routeVars, mediaVars, uploads, rooms, nReloads, created>>

incrementUnreadCountEverywhere(counts, room) == [r \in Rooms |-> counts[r] + 1]

\* incrementUnreadCount(roomId).
incrementUnreadCount(counts, room) == [counts EXCEPT ![room] = @ + 1]

\* markRoomAsRead(roomId).
markRoomAsRead(counts, room) == [counts EXCEPT ![room] = 0]

\* ------------------------------------------------------------- user operations
\* sendMessage(text, roomId): without a target room it warns and returns,
\* which changes nothing and is left out.
sendMessage(room) ==
    /\ sockets # <<>>
    /\ Ops < MaxOps
    /\ LET target == IF room # NoRoom THEN room ELSE currentRoom
           m == [id |-> nextId, roomId |-> target, userId |-> Me, status |-> "sending"]
           r == send(connected, sockets, ws, wire, Frame("message", nextId, NoRoom))
       IN  /\ target # NoRoom
           /\ messages' = addMessageToRoom(config, messages, target, m)
           /\ nextId' = nextId + 1
           /\ IF connected
              THEN /\ wire' = r.wire
                   /\ messageQueue' = messageQueue
                   /\ uncaught' = IF r.threw THEN uncaught \cup {"sendMessage"} ELSE uncaught
              ELSE /\ messageQueue' = Append(messageQueue, nextId)
                   /\ UNCHANGED <<wire, uncaught>>
    /\ storage' = saveData(storage, rooms, messages')
    /\ created' = created \cup {nextId}
    /\ UNCHANGED <<connVars, currentRoom, unreadCounts, typingUsers, histVars>>
    /\ UNCHANGED <<lastFrame, invoked, errorNotices, mediaVars, uploads, rooms, nReloads>>

RoomType(rms, r) ==
    IF HasRoom(rms, r) THEN rms[CHOOSE k \in 1..Len(rms) : rms[k].id = r].type ELSE "none"

WithoutRoom(rms, r) ==
    IF HasRoom(rms, r) THEN RemoveAt(rms, CHOOSE k \in 1..Len(rms) : rms[k].id = r) ELSE rms

\* The end of ChatSystem.leaveRoom(room): a temporary room is removed with
\* its history, any other room and its history stay.
chatLeaveRoom(rms, msgs, room) ==
    IF room # NoRoom /\ RoomType(rms, room) = "temporary"
    THEN [rooms |-> WithoutRoom(rms, room), messages |-> [msgs EXCEPT ![room] = <<>>]]
    ELSE [rooms |-> rms, messages |-> msgs]

\* joinRoom(roomId), with the leaveRoom of the room left.  A call for the
\* current room returns at once and is left out.  Both sends see the same
\* socket, so the first one made is the one that can throw.
joinRoom(room) ==
    /\ sockets # <<>>
    /\ Ops < MaxOps
    /\ room # currentRoom
    /\ LET leave == send(connected, sockets, ws, wire, Frame("leave", 0, currentRoom))
           w1 == IF currentRoom # NoRoom THEN leave.wire ELSE wire
           join == send(connected, sockets, ws, w1, Frame("join", 0, room))
       IN  IF join.threw
           THEN /\ currentRoom' = IF currentRoom # NoRoom THEN currentRoom ELSE room
                /\ uncaught' = uncaught \cup {"joinRoom"}
                /\ UNCHANGED <<wire, unreadCounts>>
                /\ UNCHANGED <<rooms, messages>>
           ELSE /\ currentRoom' = room
                /\ wire' = join.wire
                /\ unreadCounts' = markRoomAsRead(unreadCounts, room)
                /\ rooms' = chatLeaveRoom(rooms, messages, currentRoom).rooms
                /\ messages' = chatLeaveRoom(rooms, messages, currentRoom).messages
                /\ UNCHANGED uncaught
    /\ nJoins' = nJoins + 1
    /\ UNCHANGED <<connVars, typingUsers, messageQueue, nextId>>
    /\ UNCHANGED <<nOnline, nInbound, closesSinceOpen, delays, acked, rejected>>
    /\ UNCHANGED <<lastFrame, invoked, errorNotices, mediaVars, uploads, storage, nReloads, created>>

\* createRoom(roomName, isPrivate): a room with a fresh id is entered in
\* this.rooms and joined as joinRoom does, and create_room is sent unless
\* the joinRoom threw.  The sends see the same socket, so only the first one
\* made can throw.
createRoom(room, isPrivate) ==
    /\ sockets # <<>>
    /\ Ops < MaxOps
    /\ ~HasRoom(rooms, room)
    /\ ~HasRoom(storage.rooms, room)
    /\ room # currentRoom
    /\ messages[room] = <<>>
    /\ LET entered == Append(rooms, [id |-> room,
                                     type |-> IF isPrivate THEN "private" ELSE "group"])
           leave == send(connected, sockets, ws, wire, Frame("leave", 0, currentRoom))
           w1 == IF currentRoom # NoRoom THEN leave.wire ELSE wire
           join == send(connected, sockets, ws, w1, Frame("join", 0, room))
           create == send(connected, sockets, ws, join.wire, Frame("create_room", 0, room))
       IN  IF join.threw
           THEN /\ currentRoom' = IF currentRoom # NoRoom THEN currentRoom ELSE room
                /\ uncaught' = uncaught \cup {"createRoom"}
                /\ rooms' = entered
                /\ UNCHANGED <<wire, unreadCounts, messages>>
           ELSE /\ currentRoom' = room
                /\ wire' = create.wire
                /\ unreadCounts' = markRoomAsRead(unreadCounts, room)
                /\ rooms' = chatLeaveRoom(entered, messages, currentRoom).rooms
                /\ messages' = chatLeaveRoom(entered, messages, currentRoom).messages
                /\ UNCHANGED uncaught
    /\ nJoins' = nJoins + 1
    /\ UNCHANGED <<connVars, typingUsers, messageQueue, nextId>>
    /\ UNCHANGED <<nOnline, nInbound, closesSinceOpen, delays, acked, rejected>>
    /\ UNCHANGED <<lastFrame, invoked, errorNotices, mediaVars, uploads, storage, nReloads, created>>

\* The forEach of leaveAllRooms: a leave frame for each room, in the order
\* of this.rooms (every room entered by this code lists the user among its
\* participants); a throwing send ends it.
RECURSIVE sendLeaves(_, _, _, _, _)
sendLeaves(conn, socks, w, wr, rms) ==
    IF rms = <<>>
    THEN [wire |-> wr, threw |-> FALSE]
    ELSE LET r == send(conn, socks, w, wr, Frame("leave", 0, Head(rms).id))
         IN  IF r.threw THEN r ELSE sendLeaves(conn, socks, w, r.wire, Tail(rms))

\* leaveAllRooms: the leave frames, then the room, the rooms and the
\* histories are cleared.
leaveAllRooms(conn, socks, w, wr, rms, msgs, cur) ==
    LET sent == sendLeaves(conn, socks, w, wr, rms)
    IN  IF sent.threw
        THEN [wire |-> sent.wire, threw |-> TRUE, rooms |-> rms, messages |-> msgs,
              currentRoom |-> cur]
        ELSE [wire |-> sent.wire, threw |-> FALSE, rooms |-> <<>>,
              messages |-> [r \in Rooms |-> <<>>], currentRoom |-> NoRoom]

\* The page is reloaded.  The page that goes away runs its 'beforeunload'
\* listener, if setupEventListeners has registered it: leaveAllRooms, then
\* saveData.  Its sockets, timers and requests go with it.  The new page
\* constructs a ChatSystem and runs initialize up to connect().
reloadPage ==
    /\ sockets # <<>>
    /\ nReloads < MaxReloads
    /\ Len(sockets) < MaxSockets
    /\ LET left == leaveAllRooms(connected, sockets, ws, wire, rooms, messages, currentRoom)
           saved == IF listening /\ ~left.threw
                    THEN saveData(storage, left.rooms, left.messages)
                    ELSE storage
       IN  /\ storage' = saved
           /\ wire' = IF listening THEN left.wire ELSE wire
           /\ uncaught' = IF listening /\ left.threw
                          THEN uncaught \cup {"beforeunload"}
                          ELSE uncaught
           /\ rooms' = loadSavedData(saved).rooms
           /\ messages' = loadSavedData(saved).messages
    /\ sockets' = connect([k \in 1..Len(sockets) |-> [sockets[k] EXCEPT !.state = "closed"]],
                          "init")
    /\ ws' = Len(sockets) + 1
    /\ connected' = FALSE
    /\ reconnectCount' = 0
    /\ timers' = <<>>
    /\ listening' = FALSE
    /\ notice' = "none"
    /\ messageQueue' = <<>>
    /\ currentRoom' = NoRoom
    /\ unreadCounts' = [r \in Rooms |-> 0]
    /\ typingUsers' = {}
    /\ uploads' = {}
    /\ closesSinceOpen' = 0
    /\ delays' = <<>>
    /\ nReloads' = nReloads + 1
    /\ UNCHANGED <<config, nextId, nOnline, nInbound, nJoins, acked, rejected>>
    /\ UNCHANGED <<lastFrame, invoked, errorNotices, mediaVars, created>>

\* ------------------------------------------------------------- inbound frames
InFrame(t, u, id, room, flag) ==
    [type |-> t, userId |-> u, id |-> id, room |-> room, flag |-> flag]

Bare(t) == InFrame(t, Other, 0, NoRoom, FALSE)

\* The payloads a server can deliver: text that is not JSON ("malformed"),
\* the frame types of the switch in handleMessage, and types it has no case
\* for ("auth_ok" is the acknowledgement of the auth frame).
ChatFrames ==
    {Bare("malformed"), Bare("ping"), Bare("auth_ok"), Bare("presence")}
    \cup {Bare(t) : t \in {"room_update", "user_joined", "user_left", "message_read"}}
    \cup {InFrame("error", Other, 0, NoRoom, authFailed) : authFailed \in BOOLEAN}
    \cup {InFrame("typing", Other, 0, r, isTyping) : r \in Rooms, isTyping \in BOOLEAN}
    \cup {InFrame(t, Other, id, r, FALSE) : t \in {"message", "file"}, id \in RemoteIds, r \in Rooms}
    \cup {InFrame(t, Me, id, NoRoom, FALSE) : t \in {"message", "file"}, id \in OwnIds}

\* The method each case of the switch in handleMessage calls ("inline" for
\* the cases that are handled in place), "none" where there is no case.
CaseHandler(t) ==
    CASE t = "message" -> "handleIncomingMessage"
      [] t = "file" -> "handleIncomingFile"
      [] t = "typing" -> "handleTypingIndicator"
      [] t = "room_update" -> "handleRoomUpdate"
      [] t = "user_joined" -> "handleUserJoined"
      [] t = "user_left" -> "handleUserLeft"
      [] t = "message_read" -> "handleMessageRead"
      [] t = "error" -> "inline"
      [] t = "ping" -> "inline"
      [] OTHER -> "none"

\* The handlers class ChatSystem defines.  Calling one of the others is a
\* TypeError, which the catch of handleMessage logs.
ChatMethods ==
    {"handleIncomingMessage", "handleIncomingFile", "handleTypingIndicator", "inline"}

\* The handlers handleMessage runs for a frame of type t.
dispatch(t) ==
    IF t # "malformed" /\ CaseHandler(t) \in ChatMethods THEN <<CaseHandler(t)>> ELSE <<>>

\* fileMessage.status = status: sendFile writes to the object it pushed to
\* the history, so the entry changes as long as it has not been evicted.
fileMessageStatus(msgs, id, status) ==
    [r \in Rooms |->
        [k \in 1..Len(msgs[r]) |->
            IF msgs[r][k].id = id /\ msgs[r][k].userId = Me
            THEN [msgs[r][k] EXCEPT !.status = status]
            ELSE msgs[r][k]]]

\* sendFile(file, roomId) up to its await of fetch.  Without a target room
\* or with a file above maxFileSize it tells the user and returns, which
\* changes nothing and is left out.
sendFile(room) ==
    /\ sockets # <<>>
    /\ Ops < MaxOps
    /\ LET target == IF room # NoRoom THEN room ELSE currentRoom
           m == [id |-> nextId, roomId |-> target, userId |-> Me, status |-> "uploading"]
       IN  /\ target # NoRoom
           /\ messages' = addMessageToRoom(config, messages, target, m)
           /\ nextId' = nextId + 1
           /\ uploads' = uploads \cup {nextId}
    /\ storage' = saveData(storage, rooms, messages')
    /\ UNCHANGED <<connVars, currentRoom, unreadCounts, typingUsers, histVars>>
    /\ UNCHANGED <<messageQueue, wire, routeVars, mediaVars, rooms, nReloads, created>>

\* The rest of sendFile, when the upload request of file message id is
\* answered (ok) or fails.  this.updateMessage is not a method of the class:
\* the call in the try block throws before the send, the catch block marks
\* the message failed, and the call in the catch block throws out of sendFile.
uploadAnswered(id, ok) ==
    /\ id \in uploads
    /\ uploads' = uploads \ {id}
    /\ LET m1 == IF ok THEN fileMessageStatus(messages, id, "sent") ELSE messages
           threw1 == ok /\ "updateMessage" \notin ChatMethods
           sent == IF ok /\ ~threw1
                   THEN send(connected, sockets, ws, wire, Frame("file", id, NoRoom))
                   ELSE [wire |-> wire, threw |-> FALSE]
           caught == ~ok \/ threw1 \/ sent.threw
           m2 == IF caught THEN fileMessageStatus(m1, id, "failed") ELSE m1
           threw2 == caught /\ "updateMessage" \notin ChatMethods
       IN  /\ messages' = m2
           /\ wire' = sent.wire
           /\ uncaught' = IF threw2 THEN uncaught \cup {"sendFile"} ELSE uncaught
    /\ UNCHANGED <<connVars, currentRoom, unreadCounts, typingUsers, histVars>>
    /\ UNCHANGED <<messageQueue, nextId, lastFrame, invoked, errorNotices, mediaVars>>
    /\ UNCHANGED <<rooms, storage, nReloads>>
    /\ created' = IF ok THEN created \cup {id} ELSE created

\* ws.onmessage of socket i: handleMessage(event).  Everything runs inside
\* its try block: an exception ends the handling where it is thrown and is
\* logged to the console.
Receive(i, f) ==
    /\ i \in 1..Len(sockets)
    /\ sockets[i].state = "open"
    /\ Ops < MaxOps
    /\ nInbound' = nInbound + 1
    /\ lastFrame' = [sys |-> "chat", type |-> f.type, from |-> f.userId, room |-> f.room]
    /\ invoked' = dispatch(f.type)
    /\ acked' = IF f.type = "auth_ok" THEN acked \cup {i} ELSE acked
    /\ rejected' = IF f.type = "error" /\ f.flag THEN rejected \cup {i} ELSE rejected
    /\ errorNotices' = IF f.type = "error" THEN errorNotices + 1 ELSE errorNotices
    /\ IF dispatch(f.type) = <<>>
       THEN UNCHANGED <<roomVars, wire>>
       ELSE CASE f.type \in {"message", "file"} ->
                   IF f.userId = Me
                   THEN \* an echo of an own message: it was delivered
                        /\ messages' = updateMessageStatus(messages, f.id, "delivered")
                        /\ UNCHANGED <<currentRoom, unreadCounts, typingUsers, wire>>
                   ELSE LET m == [id |-> f.id, roomId |-> f.room, userId |-> f.userId,
                                  status |-> "sending"]
                            read == send(connected, sockets, ws, wire, Frame("read", f.id, currentRoom))
                        IN  /\ messages' = addMessageToRoom(config, messages, f.room, m)
                            /\ IF currentRoom = f.room
                               THEN /\ wire' = read.wire
                                    /\ UNCHANGED unreadCounts
                               ELSE /\ unreadCounts' = incrementUnreadCount(unreadCounts, f.room)
                                    /\ UNCHANGED wire
                            /\ UNCHANGED <<currentRoom, typingUsers>>
              [] f.type = "typing" ->
                   /\ typingUsers' = IF f.room # currentRoom THEN typingUsers
                                     ELSE IF f.flag THEN typingUsers \cup {f.userId}
                                     ELSE typingUsers \ {f.userId}
                   /\ UNCHANGED <<currentRoom, messages, unreadCounts, wire>>
              [] f.type = "ping" ->
                   /\ wire' = send(connected, sockets, ws, wire, Frame("pong", 0, NoRoom)).wire
                   /\ UNCHANGED roomVars
              [] OTHER -> UNCHANGED <<roomVars, wire>>
    /\ storage' = IF /\ dispatch(f.type) # <<>>
                      /\ f.type \in {"message", "file"}
                      /\ (f.userId = Me => findMessage(messages, f.id).found)
                   THEN saveData(storage, rooms, messages')
                   ELSE storage
    /\ UNCHANGED <<connVars, messageQueue, nextId, uncaught>>
    /\ UNCHANGED <<nOnline, nJoins, closesSinceOpen, delays, mediaVars>>
    /\ UNCHANGED <<uploads, rooms, nReloads, created>>

\* ------------------------------------------------------------- media room
\* MediaRoom.initialize up to the await of initializeSignaling:
\* requestMediaPermissions has stored the camera and microphone stream and
\* the signaling WebSocket is created.
mediaInitialize ==
    /\ signaling = "null"
    /\ signaling' = "connecting"
    /\ localStream' = "live"
    /\ UNCHANGED <<handlersSet, peerConnections, pcs, participants, negotiating,
                   mediaWire, nMediaFrames, screenStream, isScreenSharing,
                   screenPending, nShares, nLeaves>>
    /\ UNCHANGED <<chatVars, routeVars>>

\* signaling.onopen resolves initializeSignaling; initialize goes on to
\* setupEventHandlers, which sets signaling.onmessage.
signalingOpen ==
    /\ signaling = "connecting"
    /\ signaling' = "open"
    /\ handlersSet' = TRUE
    /\ UNCHANGED <<peerConnections, pcs, participants, negotiating, mediaWire,
                   nMediaFrames, localStream, screenStream, isScreenSharing,
                   screenPending, nShares, nLeaves>>
    /\ UNCHANGED <<chatVars, routeVars>>

\* A signaling frame of participant p: join and leave frames name the
\* participant in userId, answer and candidate frames in from, and an offer
\* frame in both.
MediaFrame(t, p) == [type |-> t, from |-> p, userId |-> p]

MediaFrames ==
    {MediaFrame(t, p) :
        t \in {"malformed", "offer", "answer", "candidate", "join", "leave", "error", "mute"},
        p \in Participants}

\* The cases of the switch in signaling.onmessage.
MediaCases == {"offer", "answer", "candidate", "join", "leave", "error"}

\* The peer connections this.peerConnections holds.
Sessions(map) == {map[p] : p \in Participants} \ {0}

\* createPeerConnection(userId): a new RTCPeerConnection that is given the
\* tracks of this.localStream (camera and microphone), stored under the
\* user id whatever was stored there.
createPeerConnection(conns, map, p) ==
    [pcs |-> Append(conns, [user |-> p, closed |-> FALSE,
                            video |-> "camera", audio |-> "mic",
                            remote |-> "none", applied |-> 0, queued |-> 0]),
     map |-> [map EXCEPT ![p] = Len(conns) + 1]]

\* Whether the onmessage handler of the signaling socket lets an exception
\* escape for a payload: JSON.parse is its first statement, outside any try.
mediaParseThrows(t) == t = "malformed"

handleCandidateDropsEarly(conns, map, p) ==
    LET k == map[p]
    IN  IF k # 0 /\ conns[k].remote = "set"
        THEN [pcs |-> [conns EXCEPT ![k].applied = @ + 1], threw |-> FALSE]
        ELSE [pcs |-> conns, threw |-> FALSE]

handleCandidateCreatesSession(conns, map, p) ==
    LET k == map[p]
    IN  IF k = 0
        THEN [pcs |-> Append(conns, [user |-> p, closed |-> FALSE,
                                     video |-> "camera", audio |-> "mic",
                                     remote |-> "none", applied |-> 0, queued |-> 1]),
              threw |-> FALSE]
        ELSE [pcs |-> [conns EXCEPT ![k].applied = @ + 1], threw |-> FALSE]

\* handleCandidate: addIceCandidate on the connection stored for
\* message.from, nothing when there is none.  The browser runs the call
\* after a setRemoteDescription that is still pending on the connection, and
\* rejects it on a connection that was never given a remote description.
handleCandidate(conns, map, p) ==
    LET k == map[p]
    IN  IF k = 0
        THEN [pcs |-> conns, threw |-> FALSE]
        ELSE CASE conns[k].remote = "pending" ->
                    [pcs |-> [conns EXCEPT ![k].queued = @ + 1], threw |-> FALSE]
               [] conns[k].remote = "set" ->
                    [pcs |-> [conns EXCEPT ![k].applied = @ + 1], threw |-> FALSE]
               [] OTHER ->
                    [pcs |-> conns, threw |-> TRUE]

\* handleAnswer: setRemoteDescription(answer) on the connection stored for
\* message.from, nothing when there is none.  No connection of this class
\* ever has a local offer outstanding (it never calls createOffer), so the
\* browser rejects the answer; the connection is left as it was.
handleAnswer(conns, map, p) ==
    [pcs |-> conns, threw |-> map[p] # 0]

handleParticipantLeaveKeepsSession(conns, map, parts, p) ==
    [pcs |-> IF map[p] # 0 THEN [conns EXCEPT ![map[p]].closed = TRUE] ELSE conns,
     map |-> map,
     participants |-> parts \ {p}]

\* handleParticipantLeave: close and forget the connection stored for the
\* participant, if any, and forget the participant.
handleParticipantLeave(conns, map, parts, p) ==
    [pcs |-> IF map[p] # 0 THEN [conns EXCEPT ![map[p]].closed = TRUE] ELSE conns,
     map |-> [map EXCEPT ![p] = 0],
     participants |-> parts \ {p}]

suspendedAtDispatchAwaited(neg) == {}

\* The handleOffer calls that are suspended at an await when onmessage runs
\* for the next frame: the event loop does not wait for the promise an
\* async onmessage returns, so every one of them is still suspended.
suspendedAtDispatch(neg) == neg

\* signaling.onmessage.  handleOffer runs up to its first await here and is
\* resumed by answerOffer.  An exception in an awaited handler rejects the
\* promise of the async onmessage function, which nothing handles.
MediaReceive(f) ==
    /\ signaling = "open"
    /\ handlersSet
    /\ nMediaFrames < MaxMediaFrames
    /\ f.type \in {"offer", "join"} => Len(pcs) < MaxPcs
    /\ nMediaFrames' = nMediaFrames + 1
    /\ lastFrame' = [sys |-> "media", type |-> f.type, from |-> f.from, room |-> "none"]
    /\ invoked' = IF f.type \in MediaCases THEN <<f.type>> ELSE <<>>
    /\ errorNotices' = IF f.type = "error" THEN errorNotices + 1 ELSE errorNotices
    /\ CASE f.type = "offer" ->
              LET c == createPeerConnection(pcs, peerConnections, f.userId)
                  k == Len(c.pcs)
              IN  /\ pcs' = [c.pcs EXCEPT ![k].remote = "pending"]
                  /\ peerConnections' = c.map
                  /\ negotiating' = suspendedAtDispatch(negotiating)
                                        \cup {[pc |-> k, to |-> f.from]}
                  /\ UNCHANGED <<participants, uncaught>>
         [] f.type = "answer" ->
              LET a == handleAnswer(pcs, peerConnections, f.from)
              IN  /\ pcs' = a.pcs
                  /\ uncaught' = IF a.threw THEN uncaught \cup {"handleAnswer"} ELSE uncaught
                  /\ negotiating' = suspendedAtDispatch(negotiating)
                  /\ UNCHANGED <<peerConnections, participants>>
         [] f.type = "candidate" ->
              LET c == handleCandidate(pcs, peerConnections, f.from)
              IN  /\ pcs' = c.pcs
                  /\ uncaught' = IF c.threw THEN uncaught \cup {"handleCandidate"} ELSE uncaught
                  /\ negotiating' = suspendedAtDispatch(negotiating)
                  /\ UNCHANGED <<peerConnections, participants>>
         [] f.type = "join" ->
              LET c == createPeerConnection(pcs, peerConnections, f.userId)
              IN  /\ pcs' = c.pcs
                  /\ peerConnections' = c.map
                  /\ participants' = participants \cup {f.userId}
                  /\ negotiating' = suspendedAtDispatch(negotiating)
                  /\ UNCHANGED uncaught
         [] f.type = "leave" ->
              LET l == handleParticipantLeave(pcs, peerConnections, participants, f.userId)
              IN  /\ pcs' = l.pcs
                  /\ peerConnections' = l.map
                  /\ participants' = l.participants
                  /\ negotiating' = suspendedAtDispatch(negotiating)
                  /\ UNCHANGED uncaught
         [] f.type = "malformed" ->
              /\ uncaught' = IF mediaParseThrows(f.type)
                             THEN uncaught \cup {"signaling.onmessage"}
                             ELSE uncaught
              /\ negotiating' = suspendedAtDispatch(negotiating)
              /\ UNCHANGED <<peerConnections, pcs, participants>>
         [] OTHER ->
              /\ negotiating' = suspendedAtDispatch(negotiating)
              /\ UNCHANGED <<peerConnections, pcs, participants, uncaught>>
    /\ UNCHANGED <<signaling, handlersSet, mediaWire, localStream, screenStream,
                   isScreenSharing, screenPending, nShares, nLeaves>>
    /\ UNCHANGED chatVars

\* handleOffer after its awaits: the remote description is set, the
\* candidates that waited for it are applied, and the answer is sent to the
\* offering participant.  On a connection closed meanwhile
\* setRemoteDescription rejects and the handler ends with an unhandled
\* rejection.
answerOffer(n) ==
    /\ n \in negotiating
    /\ negotiating' = negotiating \ {n}
    /\ IF pcs[n.pc].closed
       THEN /\ uncaught' = uncaught \cup {"handleOffer"}
            /\ UNCHANGED <<mediaWire, pcs>>
       ELSE /\ pcs' = [pcs EXCEPT ![n.pc].remote = "set",
                                  ![n.pc].applied = @ + pcs[n.pc].queued,
                                  ![n.pc].queued = 0]
            /\ mediaWire' = IF signaling = "open"
                            THEN Append(mediaWire, [type |-> "answer", to |-> n.to])
                            ELSE mediaWire
            /\ UNCHANGED uncaught
    /\ UNCHANGED <<signaling, handlersSet, peerConnections, participants, nMediaFrames,
                   localStream, screenStream, isScreenSharing, screenPending,
                   nShares, nLeaves>>
    /\ UNCHANGED <<chatVars, lastFrame, invoked, errorNotices>>

replaceVideoTrackOnFirst(conns, map, track) ==
    [k \in 1..Len(conns) |->
        IF k \in Sessions(map) /\ \A j \in Sessions(map) : k <= j
        THEN [conns[k] EXCEPT !.video = track]
        ELSE conns[k]]

\* The forEach of startScreenShare and stopScreenShare: on every connection
\* this.peerConnections holds, the sender whose track is of kind 'video' is
\* given the track.
replaceVideoTrack(conns, map, track) ==
    [k \in 1..Len(conns) |->
        IF k \in Sessions(map)
        THEN [conns[k] EXCEPT !.video = track]
        ELSE conns[k]]

\* toggleScreenShare while not sharing: startScreenShare up to its await of
\* getDisplayMedia.
startScreenShare ==
    /\ localStream # "null"
    /\ ~isScreenSharing
    /\ ~screenPending
    /\ nShares < MaxShares
    /\ screenPending' = TRUE
    /\ nShares' = nShares + 1
    /\ UNCHANGED <<signaling, handlersSet, peerConnections, pcs, participants,
                   negotiating, mediaWire, nMediaFrames, localStream, screenStream,
                   isScreenSharing, nLeaves>>
    /\ UNCHANGED <<chatVars, routeVars>>

\* startScreenShare after getDisplayMedia resolved; granted is FALSE when
\* the user dismissed the picker and the promise rejected.
screenShareAnswered(granted) ==
    /\ screenPending
    /\ screenPending' = FALSE
    /\ IF granted
       THEN /\ screenStream' = "live"
            /\ pcs' = replaceVideoTrack(pcs, peerConnections, "screen")
            /\ isScreenSharing' = TRUE
       ELSE UNCHANGED <<screenStream, pcs, isScreenSharing>>
    /\ UNCHANGED <<signaling, handlersSet, peerConnections, participants,
                   negotiating, mediaWire, nMediaFrames, localStream, nShares, nLeaves>>
    /\ UNCHANGED <<chatVars, routeVars>>

\* stopScreenShare, by the toggle or by the onended of the screen track;
\* without a screen stream it returns at once, which is left out.
stopScreenShare ==
    /\ screenStream # "null"
    /\ pcs' = IF localStream # "null"
              THEN replaceVideoTrack(pcs, peerConnections, "camera")
              ELSE pcs
    /\ screenStream' = "null"
    /\ isScreenSharing' = FALSE
    /\ UNCHANGED <<signaling, handlersSet, peerConnections, participants,
                   negotiating, mediaWire, nMediaFrames, localStream,
                   screenPending, nShares, nLeaves>>
    /\ UNCHANGED <<chatVars, routeVars>>

\* leaveRoom: the connections of this.peerConnections are closed and the map
\* cleared; a leave frame is sent (send throws on a socket that is still
\* connecting, which ends leaveRoom there); the tracks of the local and the
\* screen stream are stopped; the participants are forgotten.
leaveRoom ==
    /\ signaling # "null"
    /\ nLeaves < MaxLeaves
    /\ nLeaves' = nLeaves + 1
    /\ pcs' = [k \in 1..Len(pcs) |->
                  IF k \in Sessions(peerConnections)
                  THEN [pcs[k] EXCEPT !.closed = TRUE]
                  ELSE pcs[k]]
    /\ peerConnections' = [p \in Participants |-> 0]
    /\ IF signaling = "connecting"
       THEN /\ uncaught' = uncaught \cup {"leaveRoom"}
            /\ UNCHANGED <<mediaWire, localStream, screenStream, participants>>
       ELSE /\ mediaWire' = IF signaling = "open"
                            THEN Append(mediaWire, [type |-> "leave", to |-> "room"])
                            ELSE mediaWire
            /\ localStream' = IF localStream # "null" THEN "stopped" ELSE localStream
            /\ screenStream' = IF screenStream # "null" THEN "stopped" ELSE screenStream
            /\ participants' = {}
            /\ UNCHANGED uncaught
    /\ UNCHANGED <<signaling, handlersSet, negotiating, nMediaFrames,
                   isScreenSharing, screenPending, nShares>>
    /\ UNCHANGED <<chatVars, lastFrame, invoked, errorNotices>>

\* ------------------------------------------------------------- two clients
\* The names under which two clients of one room know each other: the
\* client of the media room fields above is ClientA, the other ClientB.
ClientA == "p2"
ClientB == "p1"

\* The media variables of the first client that the second one never touches.
ownMediaVars == <<signaling, handlersSet, peerConnections, pcs, participants,
                  negotiating, mediaWire, nMediaFrames, localStream, screenStream,
                  isScreenSharing, screenPending, nShares, nLeaves>>

\* The server tells the first client that the second one, whose signaling
\* socket is open, has joined: a join frame, handled by MediaReceive.
learnOfPeer ==
    /\ peer.signaling = "open"
    /\ ClientB \notin participants
    /\ MediaReceive(MediaFrame("join", ClientB))

\* MediaRoom.initialize of the second client up to initializeSignaling.
peerInitialize ==
    /\ peer.signaling = "null"
    /\ peer' = [peer EXCEPT !.signaling = "connecting"]
    /\ UNCHANGED <<connVars, roomVars, outVars, histVars, moreVars, routeVars, ownMediaVars>>

\* signaling.onopen of the second client, then its setupEventHandlers.
peerSignalingOpen ==
    /\ peer.signaling = "connecting"
    /\ peer' = [peer EXCEPT !.signaling = "open", !.handlersSet = TRUE]
    /\ UNCHANGED <<connVars, roomVars, outVars, histVars, moreVars, routeVars, ownMediaVars>>

\* The server tells the second client that the first one has joined:
\* handleParticipantJoin enters the participant and creates the peer
\* connection; neither it nor createPeerConnection sends a frame.
peerLearnsOfUs ==
    /\ peer.signaling = "open"
    /\ peer.handlersSet
    /\ signaling = "open"
    /\ ClientA \notin peer.participants
    /\ LET c == createPeerConnection(peer.pcs, peer.peerConnections, ClientA)
       IN  peer' = [peer EXCEPT !.pcs = c.pcs,
                                !.peerConnections = c.map,
                                !.participants = @ \cup {ClientA}]
    /\ UNCHANGED <<connVars, roomVars, outVars, histVars, moreVars, routeVars, ownMediaVars>>

\* ------------------------------------------------------------- specifications
\* The chat connection and the operations of the user.
Next ==
    \/ initialize
    \/ \E i \in 1..MaxSockets : SocketOpen(i)
    \/ \E i \in 1..MaxSockets, err \in BOOLEAN : SocketClose(i, err)
    \/ \E k \in 1..MaxSockets : TimerFire(k)
    \/ online
    \/ \E r \in Rooms \cup {NoRoom} : sendMessage(r)
    \/ \E r \in Rooms : joinRoom(r)

\* The chat connection with the frames a server sends on it.
RouterNext ==
    \/ initialize
    \/ \E i \in 1..MaxSockets : SocketOpen(i)
    \/ \E i \in 1..MaxSockets, err \in BOOLEAN : SocketClose(i, err)
    \/ \E k \in 1..MaxSockets : TimerFire(k)
    \/ \E r \in Rooms : joinRoom(r)
    \/ \E i \in 1..MaxSockets, f \in ChatFrames : Receive(i, f)

\* The life of the messages of the user: text and file messages sent over
\* a connection that opens, closes and reconnects, and the frames the
\* server sends back.
MessageNext ==
    \/ initialize
    \/ \E i \in 1..MaxSockets : SocketOpen(i)
    \/ \E i \in 1..MaxSockets, err \in BOOLEAN : SocketClose(i, err)
    \/ \E k \in 1..MaxSockets : TimerFire(k)
    \/ \E r \in Rooms \cup {NoRoom} : sendMessage(r)
    \/ \E r \in Rooms \cup {NoRoom} : sendFile(r)
    \/ \E id \in OwnIds, ok \in BOOLEAN : uploadAnswered(id, ok)
    \/ \E r \in Rooms : joinRoom(r)
    \/ \E i \in 1..MaxSockets, f \in ChatFrames : Receive(i, f)

\* The connection with everything that opens, closes and replaces sockets,
\* the messages sent over it and the keep-alive frames of the server.
LinkNext ==
    \/ initialize
    \/ \E i \in 1..MaxSockets : SocketOpen(i)
    \/ \E i \in 1..MaxSockets, err \in BOOLEAN : SocketClose(i, err)
    \/ \E k \in 1..MaxSockets : TimerFire(k)
    \/ online
    \/ \E r \in Rooms : sendMessage(r)
    \/ \E i \in 1..MaxSockets : Receive(i, Bare("ping"))

\* The rooms and histories of a user over page reloads.
StorageNext ==
    \/ initialize
    \/ \E i \in 1..MaxSockets : SocketOpen(i)
    \/ \E i \in 1..MaxSockets, err \in BOOLEAN : SocketClose(i, err)
    \/ \E r \in Rooms, isPrivate \in BOOLEAN : createRoom(r, isPrivate)
    \/ \E r \in Rooms : joinRoom(r)
    \/ \E r \in Rooms \cup {NoRoom} : sendMessage(r)
    \/ reloadPage

MediaNext ==
    \/ mediaInitialize
    \/ signalingOpen
    \/ \E f \in MediaFrames : MediaReceive(f)
    \/ \E k \in 1..MaxPcs, p \in Participants : answerOffer([pc |-> k, to |-> p])
    \/ startScreenShare
    \/ \E granted \in BOOLEAN : screenShareAnswered(granted)
    \/ stopScreenShare
    \/ leaveRoom

\* Two clients in one room that learn of each other through join frames.
\* The clients send each other nothing but what their handlers send.
PairNext ==
    \/ mediaInitialize
    \/ signalingOpen
    \/ peerInitialize
    \/ peerSignalingOpen
    \/ learnOfPeer
    \/ peerLearnsOfUs
    \/ startScreenShare
    \/ \E granted \in BOOLEAN : screenShareAnswered(granted)
    \/ stopScreenShare

\* The room histories alone: addMessageToRoom applied to messages numbered
\* in arrival order.
HistoryNext ==
    \E r \in Rooms : appendMessage(r)

Spec == Init /\ [][Next]_vars

RouterSpec == Init /\ [][RouterNext]_vars

MessageSpec == Init /\ [][MessageNext]_vars

LinkSpec == Init /\ [][LinkNext]_vars

StorageSpec == Init /\ [][StorageNext]_vars

MediaSpec == Init /\ [][MediaNext]_vars

\* Two clients of one room: every frame is delivered and every request of
\* the browser is answered sooner or later.
PairSpec == Init /\ [][PairNext]_vars /\ WF_vars(PairNext)

HistorySpec == Init /\ [][HistoryNext]_vars

\* ------------------------------------------------------------- connection state
\* The states of the specification's Connection, read off the fields and
\* the notification the code last showed.
Failed == ~connected /\ notice = "failed"

Reconnecting == ~connected /\ notice = "reconnecting"

\* The ids of the text messages transmitted, in the order of transmission.
RECURSIVE SentIds(_)
SentIds(wr) ==
    IF wr = <<>> THEN <<>>
    ELSE IF Head(wr).type = "message"
         THEN <<Head(wr).id>> \o SentIds(Tail(wr))
         ELSE SentIds(Tail(wr))

Increasing(q) == \A a, b \in 1..Len(q) : a < b => q[a] < q[b]

IsPrefix(a, b) == Len(a) <= Len(b) /\ SubSeq(b, 1, Len(a)) = a

\* A step in which a socket closed / an inbound chat frame was handled /
\* joinRoom ran / connect() created a socket.
ClosureStep == closesSinceOpen' = closesSinceOpen + 1

JoinStep == nJoins' = nJoins + 1

ConnectStep == Len(sockets') = Len(sockets) + 1

C2_SendQueuesWhenOffline ==
    [][JoinStep =>
          /\ connected =>
                 /\ Len(wire') > Len(wire)
                 /\ wire'[Len(wire')].type = "join"
          /\ (~connected /\ notice \in {"none", "reconnecting"}) =>
                 Len(messageQueue') = Len(messageQueue) + 1]_vars

\* C3: every socket closure retries (counter + 1, one timer scheduled) while
\* the counter is below reconnectAttempts and gives up otherwise; with
\* reconnectAttempts = 5 the connection is still reconnecting, not failed,
\* after 3 closures in a row.
C3_ClosureRetriesBelowLimit ==
    /\ [][ClosureStep =>
             IF reconnectCount < config.reconnectAttempts
             THEN /\ reconnectCount' = reconnectCount + 1
                  /\ Len(timers') = Len(timers) + 1
                  /\ SubSeq(timers', 1, Len(timers)) = timers
                  /\ Reconnecting'
             ELSE /\ reconnectCount' = reconnectCount
                  /\ timers' = timers
                  /\ Failed']_vars
    /\ []((config.reconnectAttempts = 5 /\ closesSinceOpen = 3)
              => (notice = "reconnecting" /\ reconnectCount = 3))

C3_ThreeClosuresStillRetrying ==
    /\ listening
    /\ config.reconnectAttempts = 5
    /\ closesSinceOpen = 3
    /\ Reconnecting
    /\ timers # <<>>

\* C4 as stated: with reconnectAttempts = 2, three closures in a row leave
\* the connection failed, and from then on no event starts a reconnect (no
\* socket is created) and the queue keeps what was queued.
FailedAfterRetries ==
    config.reconnectAttempts = 2 /\ closesSinceOpen >= 3 /\ Failed

C5_CounterResetOnOpen ==
    [][/\ connected' => reconnectCount' = 0
       /\ (connected /\ ~connected') =>
              /\ reconnectCount' = 1
              /\ timers'[Len(timers')] = [attempt |-> 1, delay |-> config.reconnectDelay]]_vars

C5_ReconnectedAfterRetries ==
    /\ connected
    /\ ws > 1
    /\ sockets[ws].state = "open"
    /\ sockets[ws].origin = "timer"
    /\ reconnectCount = 0

\* C6: the n-th backoff delay of a reconnect cycle is reconnectDelay * n, and
\* the delays of a cycle never decrease; every pending timer waits
\* reconnectDelay times its attempt number.
C6_LinearBackoff ==
    /\ \A n \in 1..Len(delays) :
           /\ delays[n] = config.reconnectDelay * n
           /\ n > 1 => delays[n] >= delays[n - 1]
    /\ \A k \in 1..Len(timers) :
           timers[k].delay = config.reconnectDelay * timers[k].attempt

C6_ThirdAttemptScheduled ==
    /\ Len(delays) = 3
    /\ delays[3] = 3 * config.reconnectDelay

\* A step in which handleMessage handled a frame / the signaling socket's
\* onmessage handled one.
ChatFrameStep == nInbound' = nInbound + 1

MediaFrameStep == nMediaFrames' = nMediaFrames + 1

\* Socket i went from open to closed in this step.
Closes(i) ==
    /\ i \in 1..Len(sockets)
    /\ sockets[i].state = "open"
    /\ sockets'[i].state = "closed"

\* C7 as stated: the promise of connect() is resolved only once the server
\* has acknowledged the auth frame of its socket.
C7_ResolvedOnlyAfterAck ==
    \A i \in 1..Len(sockets) : sockets[i].promise = "resolved" => i \in acked

\* C7 as amended: the promise of connect() is resolved by the open event of
\* its socket, right after the auth frame was handed to send(), whether or
\* not the server has acknowledged anything; it is never resolved for a
\* socket that did not open, and an inbound frame never changes it.
C7_ResolvedOnOpen ==
    /\ [](\A i \in 1..Len(sockets) :
              /\ sockets[i].promise = "resolved" => sockets[i].opened
              /\ (sockets[i].opened /\ "onopen" \notin uncaught)
                     => sockets[i].promise = "resolved")
    /\ [][ChatFrameStep => sockets' = sockets]_vars

C7_ResolvedWithoutAck ==
    \E i \in 1..Len(sockets) :
        /\ sockets[i].promise = "resolved"
        /\ sockets[i].state = "open"
        /\ acked = {}
        /\ \E k \in 1..Len(wire) : wire[k].type = "auth" /\ wire[k].sock = i

C9_MalformedFrameDropped ==
    [][((ChatFrameStep \/ MediaFrameStep) /\ lastFrame'.type = "malformed") =>
          /\ uncaught' = uncaught
          /\ invoked' = <<>>
          /\ UNCHANGED <<connVars, outVars, roomVars>>
          /\ UNCHANGED <<signaling, peerConnections, pcs, participants>>]_vars

\* C10: for a decoded frame the router runs exactly one handler when its
\* switch has a case for the frame's type; for any other type it runs none,
\* shows no error and leaves all state unchanged.
C10_ExactlyOneHandler ==
    [][(ChatFrameStep /\ lastFrame'.type # "malformed") =>
          IF CaseHandler(lastFrame'.type) # "none"
          THEN Len(invoked') = 1
          ELSE /\ invoked' = <<>>
               /\ errorNotices' = errorNotices
               /\ UNCHANGED <<connVars, outVars, roomVars, uncaught>>]_vars

\* The sockets that are connecting or open.
LiveSockets == {i \in 1..Len(sockets) : sockets[i].state \in {"connecting", "open"}}

LivePcs(p) == {k \in 1..Len(pcs) : pcs[k].user = p /\ ~pcs[k].closed}

\* C12: at most one un-closed peer connection exists per remote participant,
\* and it is the one this.peerConnections holds for them: no earlier
\* connection is left open but unreferenced.
C12_OnePeerConnectionPerParticipant ==
    \A p \in Participants :
        /\ Cardinality(LivePcs(p)) <= 1
        /\ \A k \in LivePcs(p) : peerConnections[p] = k

\* The connection this.peerConnections held for the sender of the frame
\* handled in this step, 0 if none.
SenderSession == peerConnections[lastFrame'.from]

CandidateStep == MediaFrameStep /\ lastFrame'.type = "candidate"

C14_NoSessionFailsSilently ==
    [][(MediaFrameStep /\ lastFrame'.type \in {"answer", "candidate"}) =>
          /\ peerConnections' = peerConnections
          /\ participants' = participants
          /\ Len(pcs') = Len(pcs)
          /\ \A k \in 1..Len(pcs) : k # SenderSession => pcs'[k] = pcs[k]
          /\ SenderSession = 0 => uncaught' = uncaught]_vars

C14_FrameWithoutSession ==
    /\ lastFrame.sys = "media"
    /\ lastFrame.type \in {"answer", "candidate"}
    /\ peerConnections[lastFrame.from] = 0
    /\ \E q \in Participants : peerConnections[q] # 0
    /\ uncaught = {}
    /\ nMediaFrames >= 2

\* A step in which startScreenShare replaced the tracks / stopScreenShare ran.
ShareStartStep == screenPending /\ ~screenPending' /\ screenStream' = "live"

ShareStopStep == screenStream # "null" /\ screenStream' = "null"

\* C15: when startScreenShare has replaced the outbound video track, every
\* session of this.peerConnections sends the screen track; when
\* stopScreenShare has run, every session sends the camera track again; in
\* both cases no connection's audio track changes.
C15_ScreenTrackOnEverySession ==
    [][/\ ShareStartStep =>
              \A k \in Sessions(peerConnections') : pcs'[k].video = "screen"
       /\ ShareStopStep =>
              \A k \in Sessions(peerConnections') : pcs'[k].video = "camera"
       /\ (ShareStartStep \/ ShareStopStep) =>
              /\ peerConnections' = peerConnections
              /\ Len(pcs') = Len(pcs)
              /\ \A k \in 1..Len(pcs) :
                     /\ pcs'[k].audio = pcs[k].audio
                     /\ pcs'[k].closed = pcs[k].closed]_vars

C15_TwoSessionsShareScreen ==
    /\ isScreenSharing
    /\ screenStream = "live"
    /\ \A p \in Participants :
           /\ peerConnections[p] # 0
           /\ pcs[peerConnections[p]].video = "screen"
           /\ pcs[peerConnections[p]].audio = "mic"

\* C16: in every state all sessions of this.peerConnections send the same
\* video track, all the camera track or all the screen track, sessions
\* created while screen sharing is on included.
C16_SameVideoTrackOnAllSessions ==
    \A j, k \in Sessions(peerConnections) : pcs[j].video = pcs[k].video

LeaveFrameStep == MediaFrameStep /\ lastFrame'.type = "leave"

\* C17: a leave frame of a participant closes the connection stored for
\* them, removes it from this.peerConnections and the participant from
\* this.participants, and touches nobody else's; handling it twice, or for a
\* participant without session, gives the same connections, map and
\* participant set as handling it once, or not at all.
C17_LeaveIdempotent ==
    /\ [][LeaveFrameStep =>
             /\ peerConnections'[lastFrame'.from] = 0
             /\ lastFrame'.from \notin participants'
             /\ SenderSession # 0 => pcs'[SenderSession].closed
             /\ \A q \in Participants \ {lastFrame'.from} :
                    /\ peerConnections'[q] = peerConnections[q]
                    /\ (q \in participants') = (q \in participants)
             /\ Len(pcs') = Len(pcs)
             /\ \A k \in 1..Len(pcs) : k # SenderSession => pcs'[k] = pcs[k]]_vars
    /\ [](\A p \in Participants :
              LET once == handleParticipantLeave(pcs, peerConnections, participants, p)
                  twice == handleParticipantLeave(once.pcs, once.map, once.participants, p)
              IN  /\ twice = once
                  /\ (peerConnections[p] = 0 /\ p \notin participants) =>
                         once = [pcs |-> pcs, map |-> peerConnections,
                                 participants |-> participants])

C17_ParticipantLeft ==
    \E p \in Participants :
        /\ lastFrame.type = "leave"
        /\ lastFrame.from = p
        /\ peerConnections[p] = 0
        /\ p \notin participants
        /\ \E k \in 1..Len(pcs) : pcs[k].user = p /\ pcs[k].closed
        /\ \E q \in Participants : peerConnections[q] # 0

LeaveRoomStep == nLeaves' = nLeaves + 1

\* C18: when leaveRoom returns, every peer connection created for the room
\* is closed and none is stored, the tracks of the local stream and of the
\* screen stream are stopped, and the signaling socket is released.
C18_LeaveReleasesEverything ==
    [][LeaveRoomStep =>
          /\ Sessions(peerConnections') = {}
          /\ \A k \in 1..Len(pcs') : pcs'[k].closed
          /\ localStream' \in {"null", "stopped"}
          /\ screenStream' \in {"null", "stopped"}
          /\ signaling' \in {"null", "closed"}]_vars

\* The ids of a history, oldest first.
Ids(h) == [k \in 1..Len(h) |-> h[k].id]

\* C19: a room's history never holds more than messageLimit messages and
\* keeps them in arrival order; an addMessageToRoom call appends the message
\* and, when that exceeds the cap, evicts exactly the oldest one.
C19_HistoryCapFifo ==
    /\ [](\A r \in Rooms :
              /\ Len(messages[r]) <= config.messageLimit
              /\ Increasing(Ids(messages[r])))
    /\ [][nextId' = nextId + 1 =>
             \E r \in Rooms :
                 /\ messages'[r] # <<>>
                 /\ messages'[r][Len(messages'[r])].id = nextId
                 /\ messages'[r] =
                        IF Len(messages[r]) < config.messageLimit
                        THEN Append(messages[r], messages'[r][Len(messages'[r])])
                        ELSE Append(Tail(messages[r]), messages'[r][Len(messages'[r])])
                 /\ \A q \in Rooms \ {r} : messages'[q] = messages[q]]_vars

C19_OldestEvicted ==
    \E r \in Rooms :
        /\ Len(messages[r]) = config.messageLimit
        /\ nextId = config.messageLimit + 2
        /\ Ids(messages[r]) = [k \in 1..config.messageLimit |-> k + 1]

\* A step in which handleMessage handled a message or file frame.
InboundMessageStep == ChatFrameStep /\ lastFrame'.type \in {"message", "file"}

\* C20: an inbound message for the focused room leaves every unread counter
\* as it was; an inbound message of another user for any other room adds
\* exactly 1 to that room's counter and changes no other; an echo of an own
\* message changes none; a joinRoom that completes leaves the counter of the
\* room it focused at 0 and the others as they were.
C20_UnreadOnlyWhenUnfocused ==
    /\ [][InboundMessageStep =>
             IF lastFrame'.from = Me \/ lastFrame'.room = currentRoom
             THEN unreadCounts' = unreadCounts
             ELSE /\ unreadCounts'[lastFrame'.room] = unreadCounts[lastFrame'.room] + 1
                  /\ \A q \in Rooms \ {lastFrame'.room} :
                         unreadCounts'[q] = unreadCounts[q]]_vars
    /\ [][(JoinStep /\ uncaught' = uncaught) =>
             /\ unreadCounts'[currentRoom'] = 0
             /\ \A q \in Rooms \ {currentRoom'} : unreadCounts'[q] = unreadCounts[q]]_vars

C20_FocusedRoomStaysRead ==
    /\ currentRoom = "r1"
    /\ lastFrame.type = "message"
    /\ lastFrame.room = "r2"
    /\ messages["r1"] # <<>>
    /\ unreadCounts["r1"] = 0
    /\ unreadCounts["r2"] = 1

\* C21: no two entries of the room histories share a message id, whatever
\* local sends, queue replays and inbound message frames have happened.
C21_MessageIdsUnique ==
    \A r \in Rooms, q \in Rooms :
        \A j \in 1..Len(messages[r]), k \in 1..Len(messages[q]) :
            messages[r][j].id = messages[q][k].id => (r = q /\ j = k)

\* The place of a status on the path sending -> sent -> delivered -> read
\* (0 for any other status).
StatusRank(status) ==
    CASE status = "sending" -> 1
      [] status = "sent" -> 2
      [] status = "delivered" -> 3
      [] status = "read" -> 4
      [] OTHER -> 0

\* C22: the status of every stored message, text or file, is one of sending,
\* sent, delivered, read and failed; the status of a message only moves
\* forward along sending -> sent -> delivered -> read, and a failed message
\* stays failed.
C22_StatusMovesForward ==
    /\ [](\A r \in Rooms : \A k \in 1..Len(messages[r]) :
              messages[r][k].status \in {"sending", "sent", "delivered", "read", "failed"})
    /\ [][\A r \in Rooms : \A j \in 1..Len(messages[r]), k \in 1..Len(messages'[r]) :
             (messages[r][j].id = messages'[r][k].id /\ messages[r][j].userId = Me) =>
                 /\ messages[r][j].status = "failed" => messages'[r][k].status = "failed"
                 /\ messages'[r][k].status # "failed" =>
                        StatusRank(messages'[r][k].status) >= StatusRank(messages[r][j].status)]_vars

\* A step in which the page was reloaded after setupEventListeners had
\* registered the 'beforeunload' listener that saves the state.
ReloadStep == nReloads' = nReloads + 1 /\ listening

\* C23: leaving a room removes it only when it is temporary, and a room
\* that is not temporary is known, with its history, to the session that
\* follows a page unload.
C23_PersistentRoomsRetained ==
    /\ [][JoinStep =>
             \A k \in 1..Len(rooms) :
                 rooms[k].type # "temporary" =>
                     /\ HasRoom(rooms', rooms[k].id)
                     /\ messages'[rooms[k].id] = messages[rooms[k].id]]_vars
    /\ [][ReloadStep =>
             \A k \in 1..Len(rooms) :
                 rooms[k].type # "temporary" =>
                     /\ HasRoom(rooms', rooms[k].id)
                     /\ messages'[rooms[k].id] = messages[rooms[k].id]]_vars

PingStep == ChatFrameStep /\ lastFrame'.type = "ping"

SentOn(k) == SelectSeq(wire, LAMBDA f : f.sock = k)

Transmitted == {wire[k].id : k \in {j \in 1..Len(wire) : wire[j].type \in {"message", "file"}}}

\* C28: every message made by sendMessage or by a sendFile whose upload
\* succeeded has been transmitted or is still in the outbound queue.
C28_NoMessageLost ==
    \A id \in created : id \in Transmitted \/ id \in Range(messageQueue)

\* C29: once leaveRoom has run no peer session exists: a frame that arrives
\* after the leave neither creates nor revives a peer connection.
C29_NoSessionAfterLeave ==
    nLeaves > 0 => Sessions(peerConnections) = {}

\* Some client has sent an offer to the signaling server.
OfferSent ==
    \/ \E k \in 1..Len(mediaWire) : mediaWire[k].type = "offer"
    \/ \E k \in 1..Len(peer.wire) : peer.wire[k].type = "offer"

\* C30: once two clients of a room have each learned of the other through
\* a join frame, at least one of them eventually sends an offer.
C30_NegotiationInitiated ==
    (ClientB \in participants /\ ClientA \in peer.participants) ~> OfferSent

====
